---- MODULE Spec2Model ----
(***************************************************************************)
(* Model of the two stateful cores of the memo backend:                    *)
(*   - the Redis-backed email queue (src/util/emailQueue.js), and           *)
(*   - the file/variant manager (src/util/fileService.js,                   *)
(*     src/models/File.js, src/routes/api/files.js).                        *)
(* Every await of the source is a step boundary: a store call lands         *)
(* atomically, and other requests may run between two awaits.               *)
(***************************************************************************)
EXTENDS Integers, Sequences, FiniteSets, TLC

(***************************************************************************)
(* Bounds of the model.                                                    *)
(***************************************************************************)
\* how many message ids addToQueue may generate (producer calls + requeues)
MaxMsgs == 3

(***************************************************************************)
(* JavaScript values.  An object is a sequence of <<key, value>> pairs in   *)
(* insertion order; every value is a string; a key whose value is           *)
(* Undefined is present in the object and dropped by JSON.stringify.        *)
(***************************************************************************)
Undefined == "undefined"
Null == "null"

Get(obj, k) ==
    IF \E i \in 1..Len(obj) : obj[i][1] = k
    THEN obj[CHOOSE i \in 1..Len(obj) :
                 obj[i][1] = k /\ \A j \in 1..(i - 1) : obj[j][1] # k][2]
    ELSE Undefined

IsDefinedPair(p) == p[2] # Undefined

\* JSON.stringify: keys in insertion order, undefined-valued keys omitted
JSONstringify(obj) == <<"json", SelectSeq(obj, IsDefinedPair)>>

\* JSON.parse of a string produced by JSON.stringify
JSONparse(str) == str[2]

(***************************************************************************)
(* Redis list commands (head of the list is index 1).                      *)
(***************************************************************************)
\* a push at the wrong end of the list
lPush_tail(list, x) == list \o <<x>>

lPush(list, x) == <<x>> \o list

rPopValue(list) == IF Len(list) = 0 THEN Null ELSE list[Len(list)]

rPopRest(list) == IF Len(list) = 0 THEN list ELSE SubSeq(list, 1, Len(list) - 1)

\* LREM key 1 value: removes the first occurrence counted from the head
lRem1(list, x) ==
    IF \E i \in 1..Len(list) : list[i] = x
    THEN LET i == CHOOSE i \in 1..Len(list) :
                      list[i] = x /\ \A j \in 1..(i - 1) : list[j] # x
         IN  SubSeq(list, 1, i - 1) \o SubSeq(list, i + 1, Len(list))
    ELSE list

(***************************************************************************)
(* Email queue state.                                                      *)
(***************************************************************************)
VARIABLES
    pending,             \* Redis list 'email_queue'
    processing,          \* Redis list 'email_processing'
    isProcessing,        \* EmailQueue.isProcessing
    processingInterval,  \* EmailQueue.processingInterval: the timer or Null
    timers,              \* how many setInterval timers are live
    clearing,            \* a clearQueue call is between its two del calls
    bc,                  \* the sendToAllUsers call: pc, recipient index, ids
    wk,                  \* per running processQueue call: pc, message, target
    nextId,              \* source of fresh message ids (Date.now() + random)
    enqLog,              \* history: every message object addToQueue pushed
    sendLog,             \* history: <<message, "ok" | "fail">> per sendEmail
    hist                 \* history: kinds of event that have happened

qvars == <<pending, processing, isProcessing, processingInterval, timers,
           clearing, bc, wk, nextId, enqLog, sendLog, hist>>

\* file/variant manager state
VARIABLES
    sharp,      \* whether require('sharp') succeeded at module load
    db,         \* the File collection: asset id -> stored document
    uploaded,   \* the document ids already handed out
    rz,         \* asset id -> the createResizedVersions call on its record
    req,        \* slot -> a request in flight (view, download, delete, hard)
    fhist       \* history: per asset, what has happened to it

fvars == <<sharp, db, uploaded, rz, req, fhist>>

\* user accounts, their Redis cache and the auth tokens
VARIABLES
    users,      \* the User collection: user id -> stored document
    userCache,  \* the Redis hashes user:<id>
    ureq,       \* requests of the users and auth routes in flight
    jwts,       \* the tokens issued so far
    issued      \* per user: the verification code mailed last, and the
                \* codes mailed before it or used up

avars == <<users, userCache, ureq, jwts, issued>>

vars == <<qvars, fvars, avars>>

\* processQueue calls that may be in flight together; one is the single
\* worker of a driver whose ticks do not overlap
Consumers == {1}

\* request bodies of POST /send (to, subject, content, optional userId)
EmailInputs ==
    { << <<"to", "a@x">>, <<"subject", "s1">>, <<"content", "c1">>,
         <<"userId", "u1">> >>,
      << <<"to", "b@x">>, <<"subject", "s2">>, <<"content", "c2">>,
         <<"userId", Undefined>> >> }

\* what identifies a payload across retries
Payload(obj) ==
    <<Get(obj, "to"), Get(obj, "subject"), Get(obj, "content"),
      Get(obj, "userId")>>

IdleWk == [pc |-> "idle", message |-> <<>>, target |-> Null]

\* no sendToAllUsers call made
IdleBc == [pc |-> "idle", k |-> 0, ids |-> <<>>]

\* the message object built by addToQueue
NewMessage(emailData, n) ==
    << <<"id", ToString(n)>> >> \o emailData \o
    << <<"createdAt", ToString(n)>>, <<"status", "pending">> >>

\* a retry that forgets the optional userId
RetryData_noUser(message) ==
    << <<"to", Get(message, "to")>>, <<"subject", Get(message, "subject")>>,
       <<"content", Get(message, "content")>> >>

\* the emailData object processQueue rebuilds for a retry
RetryData(message) ==
    << <<"to", Get(message, "to")>>, <<"subject", Get(message, "subject")>>,
       <<"content", Get(message, "content")>>,
       <<"userId", Get(message, "userId")>> >>

QInit ==
    /\ pending = <<>>
    /\ processing = <<>>
    /\ isProcessing = FALSE
    /\ processingInterval = Null
    /\ timers = 0
    /\ clearing = FALSE
    /\ bc = IdleBc
    /\ wk = [w \in Consumers |-> IdleWk]
    /\ nextId = 1
    /\ enqLog = <<>>
    /\ sendLog = <<>>
    /\ hist = {}

(***************************************************************************)
(* addToQueue as called by POST /send.                                     *)
(***************************************************************************)
addToQueue(emailData) ==
    /\ UNCHANGED <<fvars, avars, timers, clearing, bc>>
    /\ nextId <= MaxMsgs
    /\ LET message == NewMessage(emailData, nextId)
       IN  /\ pending' = lPush(pending, JSONstringify(message))
           /\ enqLog' = Append(enqLog, message)
           /\ nextId' = nextId + 1
    /\ UNCHANGED <<processing, isProcessing, processingInterval, wk, sendLog,
                   hist>>

\* lPush rejects inside addToQueue: logged and rethrown, nothing enqueued
addToQueueFault ==
    /\ UNCHANGED <<fvars, avars, timers, clearing, bc>>
    /\ nextId <= MaxMsgs
    /\ hist' = hist \cup {"storeFault"}
    /\ UNCHANGED <<pending, processing, isProcessing, processingInterval, wk,
                   nextId, enqLog, sendLog>>

Send == \E emailData \in EmailInputs : addToQueue(emailData)

(***************************************************************************)
(* startProcessing / stopProcessing.                                       *)
(***************************************************************************)
\* a startProcessing without the isProcessing check
startProcessing_unguarded ==
    /\ UNCHANGED <<fvars, avars, clearing, bc>>
    /\ isProcessing' = TRUE
    /\ processingInterval' = "timer"
    /\ timers' = timers + 1
    /\ UNCHANGED <<pending, processing, wk, nextId, enqLog, sendLog, hist>>

startProcessing ==
    /\ UNCHANGED <<fvars, avars, clearing, bc>>
    /\ IF isProcessing
       THEN UNCHANGED <<isProcessing, processingInterval, timers>>
       ELSE /\ isProcessing' = TRUE
            /\ processingInterval' = "timer"
            /\ timers' = timers + 1
    /\ UNCHANGED <<pending, processing, wk, nextId, enqLog, sendLog, hist>>

stopProcessing ==
    /\ UNCHANGED <<fvars, avars, clearing, bc>>
    /\ timers' = IF processingInterval # Null THEN timers - 1 ELSE timers
    /\ processingInterval' = Null
    /\ isProcessing' = FALSE
    /\ UNCHANGED <<pending, processing, wk, nextId, enqLog, sendLog, hist>>

(***************************************************************************)
(* processQueue, one action per await.  The only caller of processQueue is *)
(* the setInterval callback, so a call starts only while the timer exists;  *)
(* a call already started runs on after stopProcessing.                     *)
(***************************************************************************)
Busy(w) == wk[w].pc # "idle"

Overlap(w) == IF \E v \in DOMAIN wk \ {w} : Busy(v) THEN {"overlap"} ELSE {}

\* a getFromQueue that reads the oldest message and leaves it in the list
getFromQueue_peek(w) ==
    /\ UNCHANGED <<fvars, avars, timers, clearing, bc>>
    /\ processingInterval # Null
    /\ ~Busy(w)
    /\ IF rPopValue(pending) = Null
       THEN UNCHANGED <<wk, hist>>
       ELSE /\ wk' = [wk EXCEPT ![w] =
                        [pc |-> "move",
                         message |-> JSONparse(rPopValue(pending)),
                         target |-> Null]]
            /\ hist' = hist \cup Overlap(w)
    /\ UNCHANGED <<pending, processing, isProcessing, processingInterval,
                   nextId, enqLog, sendLog>>

\* a getFromQueue that takes the oldest message and discards the next one
getFromQueue_two(w) ==
    /\ UNCHANGED <<fvars, avars, timers, clearing, bc>>
    /\ processingInterval # Null
    /\ ~Busy(w)
    /\ IF rPopValue(pending) = Null
       THEN UNCHANGED <<pending, wk, hist>>
       ELSE /\ pending' = rPopRest(rPopRest(pending))
            /\ wk' = [wk EXCEPT ![w] =
                        [pc |-> "move",
                         message |-> JSONparse(rPopValue(pending)),
                         target |-> Null]]
            /\ hist' = hist \cup Overlap(w)
    /\ UNCHANGED <<processing, isProcessing, processingInterval, nextId,
                   enqLog, sendLog>>

\* the timer fires: processQueue calls getFromQueue, whose rPop lands
getFromQueue(w) ==
    /\ UNCHANGED <<fvars, avars, timers, clearing, bc>>
    /\ processingInterval # Null
    /\ ~Busy(w)
    /\ IF rPopValue(pending) = Null
       THEN UNCHANGED <<pending, wk, hist>>
       ELSE /\ pending' = rPopRest(pending)
            /\ wk' = [wk EXCEPT ![w] =
                        [pc |-> "move",
                         message |-> JSONparse(rPopValue(pending)),
                         target |-> Null]]
            /\ hist' = hist \cup Overlap(w)
    /\ UNCHANGED <<processing, isProcessing, processingInterval, nextId,
                   enqLog, sendLog>>

\* rPop rejects: rethrown, caught by processQueue's outer catch
getFromQueueFault(w) ==
    /\ UNCHANGED <<fvars, avars, timers, clearing, bc>>
    /\ processingInterval # Null
    /\ ~Busy(w)
    /\ hist' = hist \cup {"storeFault"}
    /\ UNCHANGED <<pending, processing, isProcessing, processingInterval, wk,
                   nextId, enqLog, sendLog>>

moveToProcessing(w) ==
    /\ UNCHANGED <<fvars, avars, timers, clearing, bc>>
    /\ wk[w].pc = "move"
    /\ processing' = lPush(processing, JSONstringify(wk[w].message))
    /\ wk' = [wk EXCEPT ![w].pc = "send"]
    /\ UNCHANGED <<pending, isProcessing, processingInterval, nextId,
                   enqLog, sendLog, hist>>

\* lPush rejects inside moveToProcessing: logged and swallowed
moveToProcessingFault(w) ==
    /\ UNCHANGED <<fvars, avars, timers, clearing, bc>>
    /\ wk[w].pc = "move"
    /\ hist' = hist \cup {"storeFault"}
    /\ wk' = [wk EXCEPT ![w].pc = "send"]
    /\ UNCHANGED <<pending, processing, isProcessing, processingInterval,
                   nextId, enqLog, sendLog>>

\* the try branch of processQueue: sendEmail returns or throws
sendEmail(w) ==
    /\ UNCHANGED <<fvars, avars, timers, clearing, bc>>
    /\ wk[w].pc = "send"
    /\ \/ /\ sendLog' = Append(sendLog, <<wk[w].message, "ok">>)
          /\ wk' = [wk EXCEPT ![w].pc = "ack"]
       \/ \* the transport throws; the retry that follows needs a fresh id
          /\ nextId <= MaxMsgs
          /\ sendLog' = Append(sendLog, <<wk[w].message, "fail">>)
          /\ wk' = [wk EXCEPT ![w].pc = "requeue"]
    /\ UNCHANGED <<pending, processing, isProcessing, processingInterval,
                   nextId, enqLog, hist>>

\* a catch branch that gives the message up instead of re-enqueueing it
requeue_drop(w) ==
    /\ UNCHANGED <<fvars, avars, timers, clearing, bc>>
    /\ wk[w].pc = "requeue"
    /\ wk' = [wk EXCEPT ![w].pc = "ack"]
    /\ UNCHANGED <<pending, processing, isProcessing, processingInterval,
                   nextId, enqLog, sendLog, hist>>

\* a catch branch that puts the copy where rPop takes the next message
requeue_front(w) ==
    /\ UNCHANGED <<fvars, avars, timers, clearing, bc>>
    /\ wk[w].pc = "requeue"
    /\ LET message == NewMessage(RetryData(wk[w].message), nextId)
       IN  /\ pending' = pending \o <<JSONstringify(message)>>
           /\ enqLog' = Append(enqLog, message)
           /\ nextId' = nextId + 1
    /\ wk' = [wk EXCEPT ![w].pc = "ack"]
    /\ UNCHANGED <<processing, isProcessing, processingInterval, sendLog,
                   hist>>

\* the catch branch of processQueue: addToQueue with the rebuilt emailData
requeue(w) ==
    /\ UNCHANGED <<fvars, avars, timers, clearing, bc>>
    /\ wk[w].pc = "requeue"
    /\ LET message == NewMessage(RetryData(wk[w].message), nextId)
       IN  /\ pending' = lPush(pending, JSONstringify(message))
           /\ enqLog' = Append(enqLog, message)
           /\ nextId' = nextId + 1
    /\ wk' = [wk EXCEPT ![w].pc = "ack"]
    /\ UNCHANGED <<processing, isProcessing, processingInterval, sendLog,
                   hist>>

\* a processQueue without the outer catch: the rejection leaves the call
requeueFault_raise(w) ==
    /\ UNCHANGED <<fvars, avars, timers, clearing, bc>>
    /\ wk[w].pc = "requeue"
    /\ hist' = hist \cup {"storeFault", "raised"}
    /\ wk' = [wk EXCEPT ![w] = IdleWk]
    /\ UNCHANGED <<pending, processing, isProcessing, processingInterval,
                   nextId, enqLog, sendLog>>

\* addToQueue rethrows in the catch branch: the outer catch ends the call
requeueFault(w) ==
    /\ UNCHANGED <<fvars, avars, timers, clearing, bc>>
    /\ wk[w].pc = "requeue"
    /\ hist' = hist \cup {"storeFault"}
    /\ wk' = [wk EXCEPT ![w] = IdleWk]
    /\ UNCHANGED <<pending, processing, isProcessing, processingInterval,
                   nextId, enqLog, sendLog>>

\* a scan that settles for the oldest entry of the snapshot
FindById_oldest(messages, messageId) ==
    IF messages = <<>> THEN Null ELSE messages[Len(messages)]

\* first entry of the lRange snapshot whose parsed id is messageId, or Null
FindById(messages, messageId) ==
    IF \E i \in 1..Len(messages) : Get(JSONparse(messages[i]), "id") = messageId
    THEN messages[CHOOSE i \in 1..Len(messages) :
                      /\ Get(JSONparse(messages[i]), "id") = messageId
                      /\ \A j \in 1..(i - 1) :
                             Get(JSONparse(messages[j]), "id") # messageId]
    ELSE Null

\* removeFromProcessing, first await: lRange and the scan of its result
removeFromProcessingScan(w) ==
    /\ UNCHANGED <<fvars, avars, timers, clearing, bc>>
    /\ wk[w].pc = "ack"
    /\ LET found == FindById(processing, Get(wk[w].message, "id"))
       IN  wk' = IF found = Null
                 THEN [wk EXCEPT ![w] = IdleWk]
                 ELSE [wk EXCEPT ![w].pc = "lrem", ![w].target = found]
    /\ UNCHANGED <<pending, processing, isProcessing, processingInterval,
                   nextId, enqLog, sendLog, hist>>

\* a removeFromProcessing that finds the entry and leaves it
removeFromProcessingRem_keep(w) ==
    /\ UNCHANGED <<fvars, avars, timers, clearing, bc>>
    /\ wk[w].pc = "lrem"
    /\ wk' = [wk EXCEPT ![w] = IdleWk]
    /\ UNCHANGED <<pending, processing, isProcessing, processingInterval,
                   nextId, enqLog, sendLog, hist>>

\* removeFromProcessing, second await: lRem of the entry found
removeFromProcessingRem(w) ==
    /\ UNCHANGED <<fvars, avars, timers, clearing, bc>>
    /\ wk[w].pc = "lrem"
    /\ processing' = lRem1(processing, wk[w].target)
    /\ wk' = [wk EXCEPT ![w] = IdleWk]
    /\ UNCHANGED <<pending, isProcessing, processingInterval, nextId,
                   enqLog, sendLog, hist>>

\* lRange or lRem rejects inside removeFromProcessing: logged and swallowed
removeFromProcessingFault(w) ==
    /\ UNCHANGED <<fvars, avars, timers, clearing, bc>>
    /\ wk[w].pc \in {"ack", "lrem"}
    /\ hist' = hist \cup {"storeFault"}
    /\ wk' = [wk EXCEPT ![w] = IdleWk]
    /\ UNCHANGED <<pending, processing, isProcessing, processingInterval,
                   nextId, enqLog, sendLog>>

(***************************************************************************)
(* clearQueue: del of the pending list, then del of the processing list.   *)
(***************************************************************************)
\* the first del lands
clearQueue ==
    /\ UNCHANGED <<fvars, avars, timers, bc>>
    /\ ~clearing
    /\ pending' = <<>>
    /\ clearing' = TRUE
    /\ hist' = hist \cup {"clear"}
    /\ UNCHANGED <<processing, isProcessing, processingInterval, wk, nextId,
                   enqLog, sendLog>>

\* a second del that names the pending list again
clearQueueProcessing_sameKey ==
    /\ UNCHANGED <<fvars, avars, timers, bc>>
    /\ clearing
    /\ pending' = <<>>
    /\ clearing' = FALSE
    /\ UNCHANGED <<processing, isProcessing, processingInterval, wk, nextId,
                   enqLog, sendLog, hist>>

\* the second del lands and clearQueue returns
clearQueueProcessing ==
    /\ UNCHANGED <<fvars, avars, timers, bc>>
    /\ clearing
    /\ processing' = <<>>
    /\ clearing' = FALSE
    /\ UNCHANGED <<pending, isProcessing, processingInterval, wk, nextId,
                   enqLog, sendLog, hist>>

(***************************************************************************)
(* sendToAllUsers as called by POST /send-all: User.find, then one         *)
(* awaited addToQueue per user, in the order of the result.                *)
(***************************************************************************)
\* the users User.find returns
AllUsers == <<[email |-> "a@x", id |-> "u1"], [email |-> "b@x", id |-> "u2"]>>

\* the emailData built for one user
BroadcastData(user) ==
    << <<"to", user.email>>, <<"subject", "sAll">>, <<"content", "cAll">>,
       <<"userId", user.id>> >>

\* User.find resolves and the loop starts
sendToAllUsers ==
    /\ UNCHANGED <<fvars, avars, timers, clearing>>
    /\ bc.pc = "idle"
    /\ bc' = [pc |-> "loop", k |-> 1, ids |-> <<>>]
    /\ UNCHANGED <<pending, processing, isProcessing, processingInterval, wk,
                   nextId, enqLog, sendLog, hist>>

\* a loop that goes on to the next user when an addToQueue rejects
broadcastAddFault_skip ==
    /\ UNCHANGED <<fvars, avars, timers, clearing>>
    /\ bc.pc = "loop"
    /\ hist' = hist \cup {"storeFault"}
    /\ bc' = IF bc.k < Len(AllUsers)
             THEN [bc EXCEPT !.k = @ + 1]
             ELSE [bc EXCEPT !.pc = "failed"]
    /\ UNCHANGED <<pending, processing, isProcessing, processingInterval, wk,
                   nextId, enqLog, sendLog>>

\* the addToQueue of user k resolves; after the last one the call returns
broadcastAdd ==
    /\ UNCHANGED <<fvars, avars, timers, clearing>>
    /\ bc.pc = "loop"
    /\ nextId <= MaxMsgs
    /\ LET message == NewMessage(BroadcastData(AllUsers[bc.k]), nextId)
       IN  /\ pending' = lPush(pending, JSONstringify(message))
           /\ enqLog' = Append(enqLog, message)
           /\ nextId' = nextId + 1
           /\ bc' = [pc |-> IF bc.k < Len(AllUsers) THEN "loop" ELSE "done",
                     k |-> IF bc.k < Len(AllUsers) THEN bc.k + 1 ELSE bc.k,
                     ids |-> Append(bc.ids, Get(message, "id"))]
    /\ UNCHANGED <<processing, isProcessing, processingInterval, wk, sendLog,
                   hist>>

\* the addToQueue of user k rejects: rethrown by sendToAllUsers' catch
broadcastAddFault ==
    /\ UNCHANGED <<fvars, avars, timers, clearing>>
    /\ bc.pc = "loop"
    /\ hist' = hist \cup {"storeFault"}
    /\ bc' = [bc EXCEPT !.pc = "failed"]
    /\ UNCHANGED <<pending, processing, isProcessing, processingInterval, wk,
                   nextId, enqLog, sendLog>>

(***************************************************************************)
(* The process dies while a processQueue call is in flight: the call, the  *)
(* timer and the flag are gone, the Redis lists stay.  One crash per run.  *)
(***************************************************************************)
crash ==
    /\ UNCHANGED <<fvars, avars, clearing, bc>>
    /\ \E w \in DOMAIN wk : Busy(w)
    /\ ~clearing /\ bc.pc # "loop"
    /\ "crash" \notin hist
    /\ wk' = [w \in DOMAIN wk |-> IdleWk]
    /\ isProcessing' = FALSE
    /\ processingInterval' = Null
    /\ timers' = 0
    /\ hist' = hist \cup {"crash"}
    /\ UNCHANGED <<pending, processing, nextId, enqLog, sendLog>>

QNext ==
    \/ Send
    \/ startProcessing
    \/ stopProcessing
    \/ clearQueue
    \/ clearQueueProcessing
    \/ \E w \in DOMAIN wk : getFromQueue(w)
    \/ \E w \in DOMAIN wk : moveToProcessing(w)
    \/ \E w \in DOMAIN wk : sendEmail(w)
    \/ \E w \in DOMAIN wk : requeue(w)
    \/ \E w \in DOMAIN wk : removeFromProcessingScan(w)
    \/ \E w \in DOMAIN wk : removeFromProcessingRem(w)

(***************************************************************************)
(* File/variant manager state.                                             *)
(***************************************************************************)
\* how many view and download requests may reach the counters
MaxAccess == 3

\* the document ids the Metadata Store hands out
FileIds == {"f1"}

\* requests that may be in flight together
Slots == {1, 2}

Users == {"u1", "u2"}

Anonymous == "anonymous"

\* FILE_STATUS
ACTIVE == "active"
DELETED == "deleted"
PROCESSING == "processing"
FAILED == "failed"

\* RESIZE_TYPES used for variants
Variants == {"thumbnail", "small", "medium", "large"}

\* the four default sizes of createResizedVersions, by RESIZE_TYPES name
defaultSizes == <<"thumbnail", "small", "medium", "large">>

\* uploads: domain, referenceId, uploader (req.user.id), mimetype, isPublic,
\* whether sharp can read the image's metadata, and the resizeSizes argument
\* of createResizedVersions (the upload route passes none: the empty list)
UploadInputs ==
    { [domain |-> "profile-image", referenceId |-> "r1", uploadedBy |-> "u1",
       mimeType |-> "image/png", isPublic |-> TRUE, readable |-> TRUE,
       resizeSizes |-> <<>>],
      [domain |-> "memo", referenceId |-> "r1", uploadedBy |-> "u1",
       mimeType |-> "image/png", isPublic |-> FALSE, readable |-> FALSE,
       resizeSizes |-> <<"small", "thumbnail">>],
      [domain |-> "memo", referenceId |-> "r1", uploadedBy |-> "u2",
       mimeType |-> "application/pdf", isPublic |-> TRUE, readable |-> FALSE,
       resizeSizes |-> <<>>] }

\* mimeType.startsWith('image/')
isImage(doc) == doc.mimeType \in {"image/png", "image/jpeg", "image/webp"}

NoRz == [pc |-> "none", sizes |-> <<>>, k |-> 0,
         status |-> ACTIVE, resized |-> {}, failedAt |-> 0]

IdleReq == [op |-> "none", id |-> "", pc |-> "idle",
            count |-> 0, status |-> ACTIVE, resized |-> {}]

\* softDeletes: how many deleteFile calls have returned true (2: two or
\* more); views, downloads: how many incrementView() / incrementDownload()
\* calls were made; hardDelete: "no", or how the hardDeleteFile call that
\* found the document ended
NoHist == [softDeletes |-> 0, views |-> 0, downloads |-> 0,
           hardDelete |-> "no"]

FInit ==
    /\ sharp \in BOOLEAN
    /\ db = <<>>
    /\ uploaded = {}
    /\ rz = [id \in FileIds |-> NoRz]
    /\ req = [s \in Slots |-> IdleReq]
    /\ fhist = [id \in FileIds |-> NoHist]

Exists(id) == id \in DOMAIN db

\* Model.save() of a loaded document: a $set of the modified paths on the
\* stored document, which fails when no stored document has the _id
SetPaths(id, paths) ==
    [db EXCEPT ![id] = [f \in DOMAIN db[id] |->
                            IF f \in DOMAIN paths THEN paths[f] ELSE db[id][f]]]

\* findByIdAndDelete
RemoveDoc(id) == [i \in DOMAIN db \ {id} |-> db[i]]

(***************************************************************************)
(* POST /upload/:domain: saveFile, then createResizedVersions(file) is     *)
(* started and not awaited.  createResizedVersions runs up to its first     *)
(* await within the same step.                                              *)
(***************************************************************************)
\* saveFile's probe of the image dimensions; a failure only leaves them unset
Dimensions(input) ==
    IF isImage(input) /\ sharp /\ input.readable THEN "probed" ELSE Null

\* the new File document of saveFile
NewFile(input, dims) ==
    [status |-> ACTIVE, resized |-> {}, viewCount |-> 0, downloadCount |-> 0,
     domain |-> input.domain, referenceId |-> input.referenceId,
     uploadedBy |-> input.uploadedBy, isPublic |-> input.isPublic,
     mimeType |-> input.mimeType, dimensions |-> dims]

\* a createResizedVersions without the isImage early return
StartResize_noImageCheck(doc, resizeSizes) ==
    IF ~sharp
    THEN [NoRz EXCEPT !.pc = "skipped"]
    ELSE [pc |-> "p_save",
          sizes |-> IF Len(resizeSizes) > 0 THEN resizeSizes ELSE defaultSizes,
          k |-> 1, status |-> PROCESSING, resized |-> {}, failedAt |-> 0]

\* createResizedVersions up to its first await: the two early returns, or
\* status = processing on the record and the first save dispatched
StartResize(doc, resizeSizes) ==
    IF ~sharp \/ ~isImage(doc)
    THEN [NoRz EXCEPT !.pc = "skipped"]
    ELSE [pc |-> "p_save",
          sizes |-> IF Len(resizeSizes) > 0 THEN resizeSizes ELSE defaultSizes,
          k |-> 1, status |-> PROCESSING, resized |-> {}, failedAt |-> 0]

saveFile(id, input) ==
    /\ UNCHANGED <<qvars, avars>>
    /\ id \notin uploaded
    /\ LET file == NewFile(input, Dimensions(input))
       IN  /\ db' = [i \in DOMAIN db \cup {id} |->
                        IF i = id THEN file ELSE db[i]]
           /\ rz' = [rz EXCEPT ![id] = StartResize(file, input.resizeSizes)]
    /\ uploaded' = uploaded \cup {id}
    /\ UNCHANGED <<sharp, req, fhist>>

Upload == \E id \in FileIds, input \in UploadInputs : saveFile(id, input)

(***************************************************************************)
(* createResizedVersions after its first await, one action per await.      *)
(***************************************************************************)
\* a catch block that saves the record without marking it failed
Catch_keepStatus(r, at) == [r EXCEPT !.pc = "f_save", !.failedAt = at]

\* the catch block: status = failed on the record, save dispatched
Catch(r, at) == [r EXCEPT !.pc = "f_save", !.status = FAILED, !.failedAt = at]

\* the save of status = processing lands
resizeSaveProcessing(id) ==
    /\ UNCHANGED <<qvars, avars>>
    /\ rz[id].pc = "p_save"
    /\ IF Exists(id)
       THEN /\ db' = SetPaths(id, [status |-> rz[id].status])
            /\ rz' = [rz EXCEPT ![id].pc = "gen"]
       ELSE /\ rz' = [rz EXCEPT ![id] = Catch(rz[id], 0)]
            /\ UNCHANGED db
    /\ UNCHANGED <<sharp, uploaded, req, fhist>>

\* createSingleResizedVersion up to addResizedVersion: the Variant Generator
\* returns and the record gets the entry, or it throws
resizeGenerate(id) ==
    /\ UNCHANGED <<qvars, avars>>
    /\ rz[id].pc = "gen"
    /\ LET type == rz[id].sizes[rz[id].k]
       IN  \/ rz' = [rz EXCEPT ![id].pc = "v_save",
                               ![id].resized = @ \cup {type}]
           \/ \* sharp, fs.stat or the metadata read throws
              rz' = [rz EXCEPT ![id] = Catch(rz[id], rz[id].k)]
    /\ UNCHANGED <<sharp, db, uploaded, req, fhist>>

\* a loop that stops one size short
resizeSaveVariant_shortLoop(id) ==
    /\ UNCHANGED <<qvars, avars>>
    /\ rz[id].pc = "v_save"
    /\ IF Exists(id)
       THEN /\ db' = SetPaths(id,
                   [resized |-> db[id].resized
                                  \cup {rz[id].sizes[rz[id].k]}])
            /\ rz' = IF rz[id].k < Len(rz[id].sizes) - 1
                     THEN [rz EXCEPT ![id].pc = "gen", ![id].k = @ + 1]
                     ELSE [rz EXCEPT ![id].pc = "a_save",
                                     ![id].status = ACTIVE]
       ELSE /\ rz' = [rz EXCEPT ![id] = Catch(rz[id], rz[id].k)]
            /\ UNCHANGED db
    /\ UNCHANGED <<sharp, uploaded, req, fhist>>

\* an addResizedVersion that only sets the entry on the record in memory: the
\* entries reach the stored document with the save after the last variant
resizeSaveVariant_atEnd(id) ==
    /\ UNCHANGED <<qvars, avars>>
    /\ rz[id].pc = "v_save"
    /\ IF Exists(id)
       THEN IF rz[id].k < Len(rz[id].sizes)
            THEN /\ rz' = [rz EXCEPT ![id].pc = "gen", ![id].k = @ + 1]
                 /\ UNCHANGED db
            ELSE /\ db' = SetPaths(id, [resized |-> rz[id].resized])
                 /\ rz' = [rz EXCEPT ![id].pc = "a_save",
                                     ![id].status = ACTIVE]
       ELSE /\ rz' = [rz EXCEPT ![id] = Catch(rz[id], rz[id].k)]
            /\ UNCHANGED db
    /\ UNCHANGED <<sharp, uploaded, req, fhist>>

\* addResizedVersion's save lands; after the last one status = active is
\* set on the record and saved
resizeSaveVariant(id) ==
    /\ UNCHANGED <<qvars, avars>>
    /\ rz[id].pc = "v_save"
    /\ IF Exists(id)
       THEN /\ db' = SetPaths(id,
                   [resized |-> db[id].resized
                                  \cup {rz[id].sizes[rz[id].k]}])
            /\ rz' = IF rz[id].k < Len(rz[id].sizes)
                     THEN [rz EXCEPT ![id].pc = "gen", ![id].k = @ + 1]
                     ELSE [rz EXCEPT ![id].pc = "a_save",
                                     ![id].status = ACTIVE]
       ELSE /\ rz' = [rz EXCEPT ![id] = Catch(rz[id], rz[id].k)]
            /\ UNCHANGED db
    /\ UNCHANGED <<sharp, uploaded, req, fhist>>

\* the save of status = active lands: the call returns the record
resizeSaveActive(id) ==
    /\ UNCHANGED <<qvars, avars>>
    /\ rz[id].pc = "a_save"
    /\ IF Exists(id)
       THEN /\ db' = SetPaths(id, [status |-> rz[id].status])
            /\ rz' = [rz EXCEPT ![id].pc = "returned"]
       ELSE /\ rz' = [rz EXCEPT ![id] = Catch(rz[id], 0)]
            /\ UNCHANGED db
    /\ UNCHANGED <<sharp, uploaded, req, fhist>>

\* the save of the catch block lands or throws; either way the call throws
resizeSaveFailed(id) ==
    /\ UNCHANGED <<qvars, avars>>
    /\ rz[id].pc = "f_save"
    /\ IF Exists(id)
       THEN db' = SetPaths(id, [status |-> rz[id].status])
       ELSE UNCHANGED db
    /\ rz' = [rz EXCEPT ![id].pc = "thrown"]
    /\ UNCHANGED <<sharp, uploaded, req, fhist>>

ResizeRunning(id) == rz[id].pc \in {"p_save", "gen", "v_save", "a_save", "f_save"}

(***************************************************************************)
(* Requests.  A request takes the lowest free slot.                        *)
(***************************************************************************)
FreeSlot(s) ==
    /\ req[s].pc = "idle"
    /\ \A t \in Slots : t < s => req[t].pc # "idle"

CanAccess(id) == fhist[id].views + fhist[id].downloads < MaxAccess

\* every authenticated caller passes the visibility check
MayAccess_anyUser(doc, caller) == doc.isPublic \/ caller # "anonymous"

\* a view or download request is let through to the counter
MayAccess(doc, caller) == doc.isPublic \/ doc.uploadedBy = caller

\* GET /:id answers with the file: it exists, is active, and the caller
\* passes the visibility check
getFileReturns(id, caller) ==
    Exists(id) /\ db[id].status = ACTIVE /\ MayAccess(db[id], caller)

\* GET /:id: findById, the status and visibility checks, incrementView()
\* bumps the loaded copy and dispatches its save; the response is sent
getFile(s, id, caller) ==
    /\ UNCHANGED <<qvars, avars>>
    /\ FreeSlot(s) /\ CanAccess(id)
    /\ IF getFileReturns(id, caller)
       THEN /\ req' = [req EXCEPT ![s] =
                         [IdleReq EXCEPT !.op = "view", !.id = id,
                                         !.pc = "save",
                                         !.count = db[id].viewCount + 1]]
            /\ fhist' = [fhist EXCEPT ![id].views = @ + 1]
       ELSE UNCHANGED <<req, fhist>>
    /\ UNCHANGED <<sharp, db, uploaded, rz>>

\* POST /:id/download: the same with incrementDownload()
trackDownload(s, id, caller) ==
    /\ UNCHANGED <<qvars, avars>>
    /\ FreeSlot(s) /\ CanAccess(id)
    /\ IF Exists(id) /\ db[id].status = ACTIVE /\ MayAccess(db[id], caller)
       THEN /\ req' = [req EXCEPT ![s] =
                         [IdleReq EXCEPT !.op = "download", !.id = id,
                                         !.pc = "save",
                                         !.count = db[id].downloadCount + 1]]
            /\ fhist' = [fhist EXCEPT ![id].downloads = @ + 1]
       ELSE UNCHANGED <<req, fhist>>
    /\ UNCHANGED <<sharp, db, uploaded, rz>>

\* the save of incrementView / incrementDownload lands; a rejection is
\* logged by the route's catch
incrementSave(s) ==
    /\ UNCHANGED <<qvars, avars>>
    /\ req[s].pc = "save" /\ req[s].op \in {"view", "download"}
    /\ LET id == req[s].id
       IN  IF Exists(id)
           THEN db' = SetPaths(id,
                    IF req[s].op = "view"
                    THEN [viewCount |-> req[s].count]
                    ELSE [downloadCount |-> req[s].count])
           ELSE UNCHANGED db
    /\ req' = [req EXCEPT ![s] = IdleReq]
    /\ UNCHANGED <<sharp, uploaded, rz, fhist>>

\* deleteFile: findById; softDelete() sets status on the loaded copy and
\* dispatches its save.  Not found: the call throws.
deleteFile(s, id) ==
    /\ UNCHANGED <<qvars, avars>>
    /\ FreeSlot(s)
    /\ IF Exists(id)
       THEN req' = [req EXCEPT ![s] =
                      [IdleReq EXCEPT !.op = "delete", !.id = id,
                                      !.pc = "save",
                                      !.status = db[id].status]]
       ELSE UNCHANGED req
    /\ UNCHANGED <<sharp, db, uploaded, rz, fhist>>

\* a softDelete() that flips an already deleted record back
softDeletePaths_toggle(loaded) ==
    IF loaded = DELETED THEN [status |-> ACTIVE] ELSE [status |-> DELETED]

\* the modified paths of the copy softDelete() changed: status, unless the
\* loaded status already was deleted
softDeletePaths(loaded) ==
    IF loaded = DELETED THEN <<>> ELSE [status |-> DELETED]

\* the save of softDelete() lands: deleteFile returns true, or throws when
\* the document is gone
softDeleteSave(s) ==
    /\ UNCHANGED <<qvars, avars>>
    /\ req[s].pc = "save" /\ req[s].op = "delete"
    /\ LET id == req[s].id
       IN  IF Exists(id)
           THEN /\ db' = SetPaths(id, softDeletePaths(req[s].status))
                /\ fhist' = [fhist EXCEPT ![id].softDeletes =
                                 IF @ = 0 THEN 1 ELSE 2]
           ELSE UNCHANGED <<db, fhist>>
    /\ req' = [req EXCEPT ![s] = IdleReq]
    /\ UNCHANGED <<sharp, uploaded, rz>>

\* hardDeleteFile: findById.  Not found: the call throws.
hardDeleteFile(s, id) ==
    /\ UNCHANGED <<qvars, avars>>
    /\ FreeSlot(s)
    /\ \A t \in Slots : req[t].op # "hard"
    /\ IF Exists(id)
       THEN req' = [req EXCEPT ![s] =
                      [IdleReq EXCEPT !.op = "hard", !.id = id,
                                      !.pc = "unlink",
                                      !.resized = db[id].resized]]
       ELSE UNCHANGED req
    /\ UNCHANGED <<sharp, db, uploaded, rz, fhist>>

\* the paths hardDeleteFile unlinks: the original and every resized entry
UnlinkTargets(resized) == {"original"} \cup resized

\* a hardDeleteFile whose unlink rejections reach the outer catch
hardDeleteFinish_rethrow(s, failing) ==
    /\ UNCHANGED <<qvars, avars>>
    /\ req[s].pc = "unlink" /\ req[s].op = "hard"
    /\ failing \subseteq UnlinkTargets(req[s].resized)
    /\ IF failing = {}
       THEN /\ db' = RemoveDoc(req[s].id)
            /\ fhist' = [fhist EXCEPT ![req[s].id].hardDelete = "clean"]
       ELSE /\ UNCHANGED db
            /\ fhist' = [fhist EXCEPT ![req[s].id].hardDelete = "threw"]
    /\ req' = [req EXCEPT ![s] = IdleReq]
    /\ UNCHANGED <<sharp, uploaded, rz>>

\* the rest of hardDeleteFile: the unlink calls, each of which may reject
\* (failing: those that do), then findByIdAndDelete; the call returns true.
\* The unlinks touch only the disk, which no other operation here reads, so
\* they are taken together with the store call that follows them.
hardDeleteFinish(s, failing) ==
    /\ UNCHANGED <<qvars, avars>>
    /\ req[s].pc = "unlink" /\ req[s].op = "hard"
    /\ failing \subseteq UnlinkTargets(req[s].resized)
    /\ db' = RemoveDoc(req[s].id)
    /\ fhist' = [fhist EXCEPT ![req[s].id].hardDelete =
                     IF failing = {} THEN "clean" ELSE "blobsLeft"]
    /\ req' = [req EXCEPT ![s] = IdleReq]
    /\ UNCHANGED <<sharp, uploaded, rz>>

(***************************************************************************)
(* Queries (reads of the collection).                                      *)
(***************************************************************************)
\* File.findByDomain
findByDomain(domain, referenceId) ==
    { id \in DOMAIN db : /\ db[id].domain = domain
                         /\ db[id].referenceId = referenceId
                         /\ db[id].status = ACTIVE }

\* the filter of File.findByUploader (domain = Null: no domain filter)
findByUploader(uploaderId, domain) ==
    { id \in DOMAIN db : /\ db[id].uploadedBy = uploaderId
                         /\ db[id].status = ACTIVE
                         /\ (domain # Null => db[id].domain = domain) }

\* DOMAIN_TYPES
Domains == {"memo", "profile-image", "template-image", "attachment"}

Refs == {"r1"}

\* getFilesByDomain / getFilesByUploader read and change nothing
getFilesByDomain ==
    /\ UNCHANGED <<qvars, avars>>
    /\ \A d \in Domains, r \in Refs : findByDomain(d, r) \subseteq DOMAIN db
    /\ UNCHANGED fvars

getFilesByUploader ==
    /\ UNCHANGED <<qvars, avars>>
    /\ \A u \in Users, d \in Domains \cup {Null} :
          findByUploader(u, d) \subseteq DOMAIN db
    /\ UNCHANGED fvars

FNext ==
    \/ Upload
    \/ \E id \in FileIds : resizeSaveProcessing(id)
    \/ \E id \in FileIds : resizeGenerate(id)
    \/ \E id \in FileIds : resizeSaveVariant(id)
    \/ \E id \in FileIds : resizeSaveActive(id)
    \/ \E id \in FileIds : resizeSaveFailed(id)
    \/ \E s \in Slots, id \in FileIds, caller \in Users \cup {Anonymous} :
          getFile(s, id, caller)
    \/ \E s \in Slots, id \in FileIds, caller \in Users \cup {Anonymous} :
          trackDownload(s, id, caller)
    \/ \E s \in Slots : incrementSave(s)
    \/ \E s \in Slots, id \in FileIds : deleteFile(s, id)
    \/ \E s \in Slots : softDeleteSave(s)
    \/ \E s \in Slots, id \in FileIds : hardDeleteFile(s, id)
    \/ \E s \in Slots, failing \in SUBSET ({"original"} \cup Variants) :
          hardDeleteFinish(s, failing)
    \/ getFilesByDomain
    \/ getFilesByUploader

(***************************************************************************)
(* User accounts: the users routes with their Redis cache, and the auth    *)
(* routes.  One account.                                                   *)
(***************************************************************************)
UserIds == {"u1"}

\* the usernames of request bodies
Usernames == {"a", "b"}

\* generateVerificationToken: a 6-digit number drawn with Math.random(),
\* which can draw the same number again
Codes == {"c1", "c2"}

USlots == {1, 2}

\* a user id no document was ever stored under; status is "none", "stored",
\* or "deleted" once findByIdAndDelete removed the document
NoUser == [status |-> "none", username |-> "", isEmailVerified |-> FALSE,
           emailVerificationToken |-> Null, emailVerificationExpires |-> Null]

\* no hash under the key user:<id>
NoEntry == [present |-> FALSE, username |-> "", ttl |-> FALSE]

IdleUReq == [op |-> "none", pc |-> "idle", id |-> "", username |-> "",
             code |-> Null]

NoMail == [latest |-> Null, earlier |-> {}]

AInit ==
    /\ users = [id \in UserIds |-> NoUser]
    /\ userCache = [id \in UserIds |-> NoEntry]
    /\ ureq = [s \in USlots |-> IdleUReq]
    /\ jwts = {}
    /\ issued = [id \in UserIds |-> NoMail]

UserExists(id) == users[id].status = "stored"

\* a request takes the lowest free slot
FreeUSlot(s) ==
    /\ ureq[s].pc = "idle"
    /\ \A t \in USlots : t < s => ureq[t].pc # "idle"

\* POST /users: a new document, with the schema defaults
createUser(id, username) ==
    /\ UNCHANGED <<qvars, fvars>>
    /\ users[id].status = "none"
    /\ users' = [users EXCEPT ![id] =
                    [NoUser EXCEPT !.status = "stored",
                                   !.username = username]]
    /\ UNCHANGED <<userCache, ureq, jwts, issued>>

\* GET /users/:id, hGetAll lands: a non-empty hash is the answer, otherwise
\* findById is dispatched
getUser(s, id) ==
    /\ UNCHANGED <<qvars, fvars>>
    /\ FreeUSlot(s)
    /\ IF userCache[id].present
       THEN UNCHANGED ureq
       ELSE ureq' = [ureq EXCEPT ![s] =
                        [IdleUReq EXCEPT !.op = "get", !.pc = "find",
                                         !.id = id]]
    /\ UNCHANGED <<users, userCache, jwts, issued>>

\* findById lands: not found is the answer, otherwise hSet is dispatched
\* with the fields of the document read
getUserFind(s) ==
    /\ UNCHANGED <<qvars, fvars>>
    /\ ureq[s].op = "get" /\ ureq[s].pc = "find"
    /\ ureq' = IF UserExists(ureq[s].id)
               THEN [ureq EXCEPT ![s].pc = "hset",
                                 ![s].username = users[ureq[s].id].username]
               ELSE [ureq EXCEPT ![s] = IdleUReq]
    /\ UNCHANGED <<users, userCache, jwts, issued>>

\* hSet lands: the hash holds the fields read; a hash that was there keeps
\* its time to live
getUserHSet(s) ==
    /\ UNCHANGED <<qvars, fvars>>
    /\ ureq[s].op = "get" /\ ureq[s].pc = "hset"
    /\ userCache' = [userCache EXCEPT ![ureq[s].id] =
                        [present |-> TRUE, username |-> ureq[s].username,
                         ttl |-> userCache[ureq[s].id].present
                                 /\ userCache[ureq[s].id].ttl]]
    /\ ureq' = [ureq EXCEPT ![s].pc = "expire"]
    /\ UNCHANGED <<users, jwts, issued>>

\* expire lands (on a key that is there): 60 seconds to live; the document
\* read is the answer
getUserExpire(s) ==
    /\ UNCHANGED <<qvars, fvars>>
    /\ ureq[s].op = "get" /\ ureq[s].pc = "expire"
    /\ userCache' = IF userCache[ureq[s].id].present
                    THEN [userCache EXCEPT ![ureq[s].id].ttl = TRUE]
                    ELSE userCache
    /\ ureq' = [ureq EXCEPT ![s] = IdleUReq]
    /\ UNCHANGED <<users, jwts, issued>>

\* the 60 seconds of a hash are over
cacheExpire(id) ==
    /\ UNCHANGED <<qvars, fvars>>
    /\ userCache[id].present /\ userCache[id].ttl
    /\ userCache' = [userCache EXCEPT ![id] = NoEntry]
    /\ UNCHANGED <<users, ureq, jwts, issued>>

\* PUT /users/:id, findByIdAndUpdate lands: not found is the answer,
\* otherwise the del of the hash is dispatched
updateUser(s, id, username) ==
    /\ UNCHANGED <<qvars, fvars>>
    /\ FreeUSlot(s)
    /\ IF UserExists(id)
       THEN /\ users' = [users EXCEPT ![id].username = username]
            /\ ureq' = [ureq EXCEPT ![s] =
                           [IdleUReq EXCEPT !.op = "put", !.pc = "del",
                                            !.id = id]]
       ELSE UNCHANGED <<users, ureq>>
    /\ UNCHANGED <<userCache, jwts, issued>>

\* the del of PUT lands: the updated user is the answer
updateUserDel(s) ==
    /\ UNCHANGED <<qvars, fvars>>
    /\ ureq[s].op = "put" /\ ureq[s].pc = "del"
    /\ userCache' = [userCache EXCEPT ![ureq[s].id] = NoEntry]
    /\ ureq' = [ureq EXCEPT ![s] = IdleUReq]
    /\ UNCHANGED <<users, jwts, issued>>

\* DELETE /users/:id, findByIdAndDelete lands
deleteUser(s, id) ==
    /\ UNCHANGED <<qvars, fvars>>
    /\ FreeUSlot(s)
    /\ IF UserExists(id)
       THEN /\ users' = [users EXCEPT ![id] =
                            [NoUser EXCEPT !.status = "deleted"]]
            /\ ureq' = [ureq EXCEPT ![s] =
                           [IdleUReq EXCEPT !.op = "delete", !.pc = "del",
                                            !.id = id]]
       ELSE UNCHANGED <<users, ureq>>
    /\ UNCHANGED <<userCache, jwts, issued>>

\* the del of DELETE lands
deleteUserDel(s) ==
    /\ UNCHANGED <<qvars, fvars>>
    /\ ureq[s].op = "delete" /\ ureq[s].pc = "del"
    /\ userCache' = [userCache EXCEPT ![ureq[s].id] = NoEntry]
    /\ ureq' = [ureq EXCEPT ![s] = IdleUReq]
    /\ UNCHANGED <<users, jwts, issued>>

CacheNext ==
    \/ \E id \in UserIds, username \in Usernames : createUser(id, username)
    \/ \E s \in USlots, id \in UserIds : getUser(s, id)
    \/ \E s \in USlots : getUserFind(s)
    \/ \E s \in USlots : getUserHSet(s)
    \/ \E s \in USlots : getUserExpire(s)
    \/ \E id \in UserIds : cacheExpire(id)
    \/ \E s \in USlots, id \in UserIds, username \in Usernames :
          updateUser(s, id, username)
    \/ \E s \in USlots : updateUserDel(s)
    \/ \E s \in USlots, id \in UserIds : deleteUser(s, id)
    \/ \E s \in USlots : deleteUserDel(s)

(***************************************************************************)
(* The auth routes and authenticateToken.                                  *)
(***************************************************************************)
\* user.generateAuthToken(): a signed token carrying the user's id
AuthToken(id) == [userId |-> id, kind |-> "access", signed |-> TRUE]

\* jwtService.generateRefreshToken({ userId })
RefreshToken(id) == [userId |-> id, kind |-> "refresh", signed |-> TRUE]

\* what a client can put into a request: a token that was issued, or one
\* the service did not sign
Presentable ==
    jwts \cup {[userId |-> id, kind |-> "access", signed |-> FALSE] :
                  id \in UserIds}

\* jwtService.verifyToken returns the payload, not null
verifyToken(tok) == tok.signed

\* a verification code was stored for the user and mailed
Mail(log, code) ==
    [latest |-> code,
     earlier |-> IF log.latest = Null THEN log.earlier
                 ELSE log.earlier \cup {log.latest}]

\* the code of a completed verification is used up
Used(log) ==
    [latest |-> Null,
     earlier |-> IF log.latest = Null THEN log.earlier
                 ELSE log.earlier \cup {log.latest}]

\* emailVerificationExpires < new Date(), where null compares as 0
Expired(expires) == expires # "future"

\* POST /register for a username and email not yet taken: the new document
\* is saved unverified, with a fresh code valid for an hour
register(id, username, code) ==
    /\ UNCHANGED <<qvars, fvars>>
    /\ users[id].status = "none"
    /\ users' = [users EXCEPT ![id] =
                    [status |-> "stored", username |-> username,
                     isEmailVerified |-> FALSE,
                     emailVerificationToken |-> code,
                     emailVerificationExpires |-> "future"]]
    /\ issued' = [issued EXCEPT ![id] = Mail(@, code)]
    /\ UNCHANGED <<userCache, ureq, jwts>>

\* POST /resend-verification, findOne lands: 404 without the user, 400 for
\* a verified one, otherwise a new code is drawn and the save dispatched
resendVerification(s, id, code) ==
    /\ UNCHANGED <<qvars, fvars>>
    /\ FreeUSlot(s)
    /\ IF UserExists(id) /\ ~users[id].isEmailVerified
       THEN ureq' = [ureq EXCEPT ![s] =
                        [IdleUReq EXCEPT !.op = "resend", !.pc = "save",
                                         !.id = id, !.code = code]]
       ELSE UNCHANGED ureq
    /\ UNCHANGED <<users, userCache, jwts, issued>>

\* the save of resend lands (code and expiry) and the code is mailed; the
\* save throws when the document is gone
resendSave(s) ==
    /\ UNCHANGED <<qvars, fvars>>
    /\ ureq[s].op = "resend" /\ ureq[s].pc = "save"
    /\ LET id == ureq[s].id
       IN  IF UserExists(id)
           THEN /\ users' = [users EXCEPT
                               ![id].emailVerificationToken = ureq[s].code,
                               ![id].emailVerificationExpires = "future"]
                /\ issued' = [issued EXCEPT ![id] = Mail(@, ureq[s].code)]
           ELSE UNCHANGED <<users, issued>>
    /\ ureq' = [ureq EXCEPT ![s] = IdleUReq]
    /\ UNCHANGED <<userCache, jwts>>

\* GET /verify-email goes on to set isEmailVerified: findOne by email and
\* code finds the user, the code has not expired, the user is not verified
verifyEmailAccepts(id, code) ==
    /\ UserExists(id)
    /\ users[id].emailVerificationToken = code
    /\ ~Expired(users[id].emailVerificationExpires)
    /\ ~users[id].isEmailVerified

\* GET /verify-email, findOne lands: 400 for no match or an expired code,
\* 200 without a token for a verified user, otherwise the save is dispatched
verifyEmail(s, id, code) ==
    /\ UNCHANGED <<qvars, fvars>>
    /\ FreeUSlot(s)
    /\ IF verifyEmailAccepts(id, code)
       THEN ureq' = [ureq EXCEPT ![s] =
                        [IdleUReq EXCEPT !.op = "verify", !.pc = "save",
                                         !.id = id, !.code = code]]
       ELSE UNCHANGED ureq
    /\ UNCHANGED <<users, userCache, jwts, issued>>

\* the save of verify-email lands (verified, code and expiry null) and the
\* answer carries a token; the save throws when the document is gone
verifyEmailSave(s) ==
    /\ UNCHANGED <<qvars, fvars>>
    /\ ureq[s].op = "verify" /\ ureq[s].pc = "save"
    /\ LET id == ureq[s].id
       IN  IF UserExists(id)
           THEN /\ users' = [users EXCEPT
                               ![id].isEmailVerified = TRUE,
                               ![id].emailVerificationToken = Null,
                               ![id].emailVerificationExpires = Null]
                /\ jwts' = jwts \cup {AuthToken(id)}
                /\ issued' = [issued EXCEPT ![id] = Used(@)]
           ELSE UNCHANGED <<users, jwts, issued>>
    /\ ureq' = [ureq EXCEPT ![s] = IdleUReq]
    /\ UNCHANGED userCache

\* the code's hour is over
tokenExpires(id) ==
    /\ UNCHANGED <<qvars, fvars>>
    /\ UserExists(id) /\ users[id].emailVerificationExpires = "future"
    /\ users' = [users EXCEPT ![id].emailVerificationExpires = "past"]
    /\ UNCHANGED <<userCache, ureq, jwts, issued>>

\* a login that does not look at isEmailVerified
login_anyUser(id, password) ==
    /\ UNCHANGED <<qvars, fvars>>
    /\ IF UserExists(id) /\ password = "right"
       THEN jwts' = jwts \cup {AuthToken(id)}
       ELSE UNCHANGED jwts
    /\ UNCHANGED <<users, userCache, ureq, issued>>

\* POST /login: 401 without the user or with a wrong password, 403 for an
\* unverified user, otherwise a token.  The answer depends only on the
\* document findOne read.
login(id, password) ==
    /\ UNCHANGED <<qvars, fvars>>
    /\ IF UserExists(id) /\ password = "right" /\ users[id].isEmailVerified
       THEN jwts' = jwts \cup {AuthToken(id)}
       ELSE UNCHANGED jwts
    /\ UNCHANGED <<users, userCache, ureq, issued>>

\* POST /refresh-token: 401 for a token that does not verify, a missing or
\* an unverified user, otherwise a new access and a new refresh token
refreshToken(tok) ==
    /\ UNCHANGED <<qvars, fvars>>
    /\ IF /\ verifyToken(tok) /\ UserExists(tok.userId)
          /\ users[tok.userId].isEmailVerified
       THEN jwts' = jwts \cup {AuthToken(tok.userId),
                               RefreshToken(tok.userId)}
       ELSE UNCHANGED jwts
    /\ UNCHANGED <<users, userCache, ureq, issued>>

\* authenticateToken calls next(): the token verifies, its user exists and
\* is verified
Admits(tok) ==
    /\ verifyToken(tok)
    /\ UserExists(tok.userId)
    /\ users[tok.userId].isEmailVerified

\* a route behind authenticateToken (GET /me) reads and changes nothing
authenticateToken(tok) ==
    /\ UNCHANGED <<qvars, fvars>>
    /\ Admits(tok) \in BOOLEAN
    /\ UNCHANGED avars

AuthNext ==
    \/ \E id \in UserIds, username \in Usernames : createUser(id, username)
    \/ \E id \in UserIds, code \in Codes : register(id, "a", code)
    \/ \E s \in USlots, id \in UserIds, code \in Codes :
          resendVerification(s, id, code)
    \/ \E s \in USlots : resendSave(s)
    \/ \E s \in USlots, id \in UserIds, code \in Codes :
          verifyEmail(s, id, code)
    \/ \E s \in USlots : verifyEmailSave(s)
    \/ \E id \in UserIds : tokenExpires(id)
    \/ \E id \in UserIds, password \in {"right", "wrong"} :
          login(id, password)
    \/ \E tok \in Presentable : refreshToken(tok)
    \/ \E tok \in Presentable : authenticateToken(tok)
    \/ \E s \in USlots, id \in UserIds : deleteUser(s, id)
    \/ \E s \in USlots : deleteUserDel(s)

Init == QInit /\ FInit /\ AInit

\* the email queue on its own
Next == QNext

Spec == Init /\ [][Next]_vars

\* one processQueue call, step by step, without a rejecting store call
Tick ==
    \/ \E w \in DOMAIN wk : getFromQueue(w)
    \/ \E w \in DOMAIN wk : moveToProcessing(w)
    \/ \E w \in DOMAIN wk : sendEmail(w)
    \/ \E w \in DOMAIN wk : requeue(w)
    \/ \E w \in DOMAIN wk : removeFromProcessingScan(w)
    \/ \E w \in DOMAIN wk : removeFromProcessingRem(w)

\* the running driver with store calls that may reject
FaultNext ==
    \/ Send
    \/ startProcessing
    \/ Tick
    \/ addToQueueFault
    \/ \E w \in DOMAIN wk : getFromQueueFault(w)
    \/ \E w \in DOMAIN wk : moveToProcessingFault(w)
    \/ \E w \in DOMAIN wk : requeueFault(w)
    \/ \E w \in DOMAIN wk : removeFromProcessingFault(w)

FaultSpec == Init /\ [][FaultNext]_vars

\* the broadcast next to the producer and the running driver
BroadcastNext ==
    \/ Send
    \/ startProcessing
    \/ Tick
    \/ sendToAllUsers
    \/ broadcastAdd
    \/ broadcastAddFault

BroadcastSpec == Init /\ [][BroadcastNext]_vars

\* two processQueue calls that may overlap: a tick that fires while the
\* previous one is still awaiting, or a second process on the same lists
OverlappingTicks == {1, 2}

ConcInit ==
    /\ pending = <<>>
    /\ processing = <<>>
    /\ isProcessing = FALSE
    /\ processingInterval = Null
    /\ timers = 0
    /\ clearing = FALSE
    /\ bc = IdleBc
    /\ wk = [w \in OverlappingTicks |-> IdleWk]
    /\ nextId = 1
    /\ enqLog = <<>>
    /\ sendLog = <<>>
    /\ hist = {}
    /\ FInit
    /\ AInit

ConcNext ==
    \/ Send
    \/ startProcessing
    \/ Tick

ConcSpec == ConcInit /\ [][ConcNext]_vars

\* the driver once started and never stopped, no clear, no rejecting store
\* call: while its timer lives the callback keeps firing and every store
\* call of a processQueue call resolves.  sendEmail can throw only while
\* fresh ids are left, so only finitely often.
LiveNext ==
    \/ Send
    \/ startProcessing
    \/ Tick

LiveSpec == Init /\ [][LiveNext]_vars /\ WF_vars(Tick)

\* the email queue with a process that can die
CrashNext ==
    \/ QNext
    \/ crash

CrashSpec == Init /\ [][CrashNext]_vars

\* the file manager on its own
FileNext == FNext

FileSpec == Init /\ [][FileNext]_vars

\* clearQueue next to the running driver, with producers that enqueue
\* nothing more once a clearQueue call was made
SendBeforeClear == "clear" \notin hist /\ Send

ClearNext ==
    \/ SendBeforeClear
    \/ startProcessing
    \/ Tick
    \/ clearQueue
    \/ clearQueueProcessing

ClearSpec == Init /\ [][ClearNext]_vars

\* the users routes with their cache
CacheSpec == Init /\ [][CacheNext]_vars

\* the auth routes
AuthSpec == Init /\ [][AuthNext]_vars

(***************************************************************************)
(* Properties of the email queue.                                          *)
(***************************************************************************)
InList(list, x) == \E i \in 1..Len(list) : list[i] = x

NoNotifierFailure == \A i \in 1..Len(sendLog) : sendLog[i][2] = "ok"

QueueIdle == \A w \in DOMAIN wk : ~Busy(w)

\* the strings of enqLog[from..], newest first, as a Redis list holds them
RECURSIVE PendingOf(_, _)
PendingOf(log, from) ==
    IF from > Len(log) THEN <<>>
    ELSE PendingOf(log, from + 1) \o <<JSONstringify(log[from])>>

\* C1: with a Notifier that never fails, one worker and no clear, the k-th
\* delivery is the k-th enqueued item (same id, same payload), and between
\* calls exactly the items not yet delivered wait in pending, in enqueue
\* order, with nothing left in processing.
C1_FifoDelivery ==
    (NoNotifierFailure /\ hist = {}) =>
        /\ Len(sendLog) <= Len(enqLog)
        /\ \A i \in 1..Len(sendLog) :
              /\ Get(sendLog[i][1], "id") = Get(enqLog[i], "id")
              /\ Payload(sendLog[i][1]) = Payload(enqLog[i])
        /\ QueueIdle =>
              /\ pending = PendingOf(enqLog, Len(sendLog) + 1)
              /\ processing = <<>>

\* three items, not all with the same payload, were enqueued and three
\* calls delivered all of them without a failure
C1_Witness ==
    /\ NoNotifierFailure /\ hist = {} /\ QueueIdle
    /\ Len(sendLog) = 3 /\ Len(enqLog) = 3
    /\ Payload(enqLog[1]) # Payload(enqLog[2])
    /\ pending = <<>>

\* C2: one item X enqueued into empty lists, the Notifier failing on the
\* first attempt and succeeding on the second: once the second call has
\* returned, the one successful delivery carried X's payload (under the id of
\* the re-enqueued copy) and pending and processing are both empty.
C2_RequeueRoundTrip ==
    (/\ Len(sendLog) = 2 /\ sendLog[1][2] = "fail" /\ sendLog[2][2] = "ok"
     /\ Len(enqLog) = 2 /\ hist = {} /\ QueueIdle) =>
        /\ Payload(sendLog[2][1]) = Payload(enqLog[1])
        /\ Payload(sendLog[1][1]) = Payload(enqLog[1])
        /\ Get(sendLog[2][1], "id") = Get(enqLog[2], "id")
        /\ Get(sendLog[2][1], "id") # Get(enqLog[1], "id")
        /\ Len(pending) + Len(processing) = 0

\* an item carrying a userId failed once, and its copy was delivered
C2_Witness ==
    /\ Len(sendLog) = 2 /\ sendLog[1][2] = "fail" /\ sendLog[2][2] = "ok"
    /\ Len(enqLog) = 2 /\ hist = {} /\ QueueIdle
    /\ Get(enqLog[1], "userId") # Undefined

\* an item nobody has tried to send yet
Unresolved(message) ==
    \A i \in 1..Len(sendLog) :
        Get(sendLog[i][1], "id") # Get(message, "id")

\* C3: as long as the queue was not cleared, the serialized form of every
\* enqueued item is never in both lists, and that of an item not yet
\* resolved is in one of them, in every state, between the store calls of
\* processQueue included.
C3_ExclusiveOwnership ==
    "clear" \notin hist =>
        \A i \in 1..Len(enqLog) :
            LET str == JSONstringify(enqLog[i])
            IN  /\ ~(InList(pending, str) /\ InList(processing, str))
                /\ Unresolved(enqLog[i]) =>
                      InList(pending, str) \/ InList(processing, str)

NotifierAlwaysFails == \A i \in 1..Len(sendLog) : sendLog[i][2] = "fail"

\* the ids of the messages in a Redis list, of a log of messages, and of
\* the messages handed to sendEmail
IdsIn(list) == {Get(JSONparse(list[i]), "id") : i \in 1..Len(list)}

IdsOf(log) == {Get(log[i], "id") : i \in 1..Len(log)}

IdsSent == {Get(sendLog[i][1], "id") : i \in 1..Len(sendLog)}

\* how many pending entries carry the payload of a message
PendingWith(message) ==
    Cardinality({i \in 1..Len(pending) :
                    Payload(JSONparse(pending[i])) = Payload(message)})

\* C11: with a Notifier that has failed every time, no clear and no
\* processQueue call in flight, processing is empty, the payload of every
\* message ever enqueued (so of every failed one) is still pending, and
\* the pending messages are exactly those never handed to the Notifier:
\* each failed attempt was replaced by a fresh copy, none was given up.
C11_UnboundedRetry ==
    (NotifierAlwaysFails /\ hist = {} /\ QueueIdle) =>
        /\ processing = <<>>
        /\ \A i \in 1..Len(enqLog) : PendingWith(enqLog[i]) >= 1
        /\ IdsIn(pending) = IdsOf(enqLog) \ IdsSent
        /\ Len(pending) = Len(enqLog) - Len(sendLog)

\* one payload has failed twice and its third copy waits in pending
C11_Witness ==
    /\ NotifierAlwaysFails /\ hist = {} /\ QueueIdle
    /\ Len(sendLog) = 2 /\ Len(enqLog) = 3 /\ Len(pending) = 1
    /\ Payload(sendLog[1][1]) = Payload(sendLog[2][1])
    /\ Get(sendLog[1][1], "id") # Get(sendLog[2][1], "id")
    /\ processing = <<>>

\* C12: no processQueue call raises to the timer callback, whether
\* sendEmail throws or a store call rejects inside it, and no step of a
\* call, failing or not, touches the driver: once running, isProcessing
\* stays true and the one timer stays, so later ticks still run.
C12_FailureContainment ==
    [][/\ "raised" \notin hist'
       /\ (wk' # wk \/ hist' # hist \/ sendLog' # sendLog) =>
             /\ isProcessing' = isProcessing
             /\ processingInterval' = processingInterval
             /\ timers' = timers]_vars

\* a store call rejected, sendEmail threw, the driver is still running and
\* a later tick is at work next to what an earlier one left in processing
C12_Witness ==
    /\ "storeFault" \in hist
    /\ \E i \in 1..Len(sendLog) : sendLog[i][2] = "fail"
    /\ isProcessing /\ processingInterval # Null /\ timers = 1
    /\ \E w \in DOMAIN wk : wk[w].pc = "send"
    /\ Len(processing) = 2

\* C13: whatever startProcessing and stopProcessing calls were made, at
\* most one interval timer is live, isProcessing is true exactly when one
\* is, and processingInterval holds it exactly then; so a startProcessing
\* while running adds no timer and a stopProcessing while idle changes
\* nothing.
C13_IdempotentStartStop ==
    /\ timers \in {0, 1}
    /\ isProcessing <=> timers = 1
    /\ isProcessing <=> processingInterval # Null

\* the driver was started, a tick took a message and the driver was
\* stopped while that call is still in flight: no timer is left
C13_Witness ==
    /\ ~isProcessing /\ timers = 0 /\ processingInterval = Null
    /\ \E w \in DOMAIN wk : wk[w].pc = "move"

\* C14: the step in which the retry of a failed message is enqueued puts
\* a copy with the same payload and an id never used before behind every
\* message pending at that moment (rPop takes all of them first, in their
\* old order), and when the call ends the failed copy is not in processing.
C14_RequeueToTail ==
    [][\A w \in DOMAIN wk :
          /\ (wk[w].pc = "requeue" /\ wk'[w].pc = "ack") =>
                /\ Len(pending') = Len(pending) + 1
                /\ \A i \in 1..Len(pending) : pending'[i + 1] = pending[i]
                /\ pending # <<>> => rPopValue(pending') = rPopValue(pending)
                /\ Payload(JSONparse(pending'[1])) = Payload(wk[w].message)
                /\ Get(JSONparse(pending'[1]), "id") \notin IdsOf(enqLog)
          /\ (wk[w].pc \in {"ack", "lrem"} /\ wk'[w].pc = "idle") =>
                ~InList(processing', JSONstringify(wk[w].message))]_vars

\* a message failed while another one was pending: its copy waits behind
C14_Witness ==
    \E w \in DOMAIN wk :
        /\ wk[w].pc = "ack"
        /\ sendLog # <<>>
        /\ sendLog[Len(sendLog)] = <<wk[w].message, "fail">>
        /\ Len(pending) = 2
        /\ Payload(JSONparse(pending[1])) = Payload(wk[w].message)
        /\ Payload(JSONparse(pending[2])) # Payload(wk[w].message)
        /\ InList(processing, JSONstringify(wk[w].message))

\* C15: with two processQueue calls running against the same lists, no
\* two calls hold the same message, and no message is handed to sendEmail
\* twice, so none is delivered successfully more than once.
C15_ConcurrentConsumers ==
    /\ \A w, v \in DOMAIN wk :
          (w # v /\ Busy(w) /\ Busy(v)) =>
              Get(wk[w].message, "id") # Get(wk[v].message, "id")
    /\ \A i, j \in 1..Len(sendLog) :
          i # j => Get(sendLog[i][1], "id") # Get(sendLog[j][1], "id")

\* two calls overlapped, each with its own message, and both delivered
C15_Witness ==
    /\ "overlap" \in hist
    /\ Cardinality(DOMAIN wk) = 2
    /\ \A w \in DOMAIN wk : wk[w].pc = "ack"
    /\ Len(sendLog) = 2
    /\ sendLog[1][2] = "ok" /\ sendLog[2][2] = "ok"

\* an entry of processing that no processQueue call in flight holds
Orphaned(str) ==
    /\ InList(processing, str)
    /\ \A w \in DOMAIN wk : ~(Busy(w) /\ JSONstringify(wk[w].message) = str)

\* C16: an entry of processing whose processQueue call is gone (the
\* process died after moveToProcessing) stays in processing in every step
\* but the second del of clearQueue: no later call picks it up, hands it to
\* sendEmail, puts it back into pending or removes it.
C16_CrashLeavesStuck ==
    [][\A i \in 1..Len(processing) :
          (Orphaned(processing[i]) /\ ~(clearing /\ ~clearing')) =>
              LET str == processing[i]
                  id == Get(JSONparse(str), "id")
              IN  /\ InList(processing', str)
                  /\ \A w \in DOMAIN wk :
                        ~(wk'[w].pc # "idle" /\ Get(wk'[w].message, "id") = id)
                  /\ id \notin IdsIn(pending')
                  /\ \A j \in (Len(sendLog) + 1)..Len(sendLog') :
                        Get(sendLog'[j][1], "id") # id]_vars

\* the process died with message 1 in processing and undelivered; the
\* driver was started again and has delivered message 2; message 1 is
\* still where it was
C16_Witness ==
    /\ "crash" \in hist /\ "clear" \notin hist
    /\ IdsIn(processing) = {"1"}
    /\ "1" \notin IdsSent /\ "2" \in IdsSent
    /\ QueueIdle /\ isProcessing

\* every message ever enqueued was handed to sendEmail, for each of them
\* a delivery of its payload has succeeded, and nothing is left to do
AllDelivered ==
    /\ pending = <<>> /\ processing = <<>> /\ QueueIdle
    /\ IdsOf(enqLog) = IdsSent
    /\ \A n \in 1..Len(enqLog) :
          \E j \in 1..Len(sendLog) :
              /\ sendLog[j][2] = "ok"
              /\ Payload(sendLog[j][1]) = Payload(enqLog[n])

\* C17: whenever the driver is running, a state follows in which the
\* payload of every message enqueued so far has been delivered and pending
\* and processing are both empty.
C17_AtLeastOnce == (processingInterval # Null) ~> AllDelivered

\* three messages enqueued, one of them a retry of a failed one, all
\* resolved and both lists empty
C17_Witness ==
    /\ processingInterval # Null /\ AllDelivered
    /\ Len(enqLog) = 3 /\ Len(sendLog) = 3
    /\ \E i \in 1..Len(sendLog) : sendLog[i][2] = "fail"

\* the ids of the messages a processQueue call in flight holds
IdsHeld == {Get(wk[w].message, "id") : w \in {v \in DOMAIN wk : Busy(v)}}

\* the messages ever enqueued that are addressed to user j by a broadcast
BroadcastTo(j) ==
    {n \in 1..Len(enqLog) :
        Payload(enqLog[n]) = Payload(BroadcastData(AllUsers[j]))}

\* C18: sendToAllUsers fails exactly when one of its addToQueue calls
\* rejects; when the one for user k did, addToQueue had returned for the
\* users 1..k-1 only, in that order, each of their messages is still in
\* pending unless the driver has taken it, and no message was enqueued for
\* the users k..n.
C18_BroadcastNotTransactional ==
    /\ "storeFault" \in hist <=> bc.pc = "failed"
    /\ bc.pc = "failed" =>
          /\ Len(bc.ids) = bc.k - 1
          /\ \A j \in 1..Len(bc.ids) :
                /\ \E n \in BroadcastTo(j) : Get(enqLog[n], "id") = bc.ids[j]
                /\ bc.ids[j] \in IdsIn(pending) \cup IdsSent \cup IdsHeld
          /\ \A j \in 1..Len(bc.ids), i \in 1..Len(bc.ids) :
                i < j =>
                    \E n, m \in 1..Len(enqLog) :
                        /\ n < m
                        /\ Get(enqLog[n], "id") = bc.ids[i]
                        /\ Get(enqLog[m], "id") = bc.ids[j]
          /\ \A j \in bc.k..Len(AllUsers) : BroadcastTo(j) = {}

\* the enqueue for the second of two users rejected: the message for the
\* first one is in pending, the call has failed
C18_Witness ==
    /\ bc.pc = "failed" /\ bc.k = 2 /\ Len(bc.ids) = 1
    /\ bc.ids[1] \in IdsIn(pending)
    /\ BroadcastTo(1) # {} /\ BroadcastTo(2) = {}

\* C19: the first del of clearQueue leaves pending empty and the second
\* leaves processing empty, whatever the lists held; when clearQueue
\* returns both lists are empty, unless a message was pushed onto pending
\* after the first del.
C19_ClearEmpties ==
    [][/\ (~clearing /\ clearing') => pending' = <<>>
       /\ (clearing /\ ~clearing') =>
             /\ processing' = <<>>
             /\ pending' = pending
             /\ pending = <<>> => (pending' = <<>> /\ processing' = <<>>)]_vars

\* clearQueue has returned and both lists are empty: messages 2 and 3 were
\* deleted from pending and, from processing, the entry of message 1 that
\* the call in flight had already found there
C19_Witness ==
    /\ "clear" \in hist /\ ~clearing
    /\ pending = <<>> /\ processing = <<>>
    /\ \E w \in DOMAIN wk : wk[w].pc = "lrem" /\ Get(wk[w].message, "id") = "1"
    /\ Len(enqLog) = 3 /\ Len(sendLog) = 1

(***************************************************************************)
(* Properties of the file/variant manager.                                 *)
(***************************************************************************)
\* the names of a size list
Names(sizes) == {sizes[i] : i \in 1..Len(sizes)}

\* the names of the sizes before position k
NamesBefore(sizes, k) == {sizes[i] : i \in 1..(k - 1)}

\* C4: when the Variant Generator fails on variant k of the list, the step
\* that ends createResizedVersions (it throws) leaves the stored document, if
\* it still exists, with status failed and with exactly the variants 1..k-1
\* in metadata.resized; the record in memory holds the same.
C4_PartialVariants ==
    [][\A id \in FileIds :
          (/\ rz[id].pc = "f_save" /\ rz'[id].pc = "thrown"
           /\ rz[id].failedAt >= 1 /\ id \in DOMAIN db') =>
              /\ db'[id].status = FAILED
              /\ db'[id].resized = NamesBefore(rz[id].sizes, rz[id].failedAt)
              /\ rz'[id].status = FAILED
              /\ rz'[id].resized = db'[id].resized]_vars

\* variant 2 of the 4 default sizes failed: only thumbnail is recorded
C4_Witness ==
    \E id \in FileIds :
        /\ rz[id].pc = "thrown" /\ rz[id].failedAt = 2
        /\ rz[id].sizes = defaultSizes
        /\ Exists(id) /\ db[id].status = FAILED
        /\ db[id].resized = {"thumbnail"}

C6_QueryExclusivity ==
    /\ \A d \in Domains, r \in Refs : \A id \in findByDomain(d, r) :
          db[id].status = ACTIVE /\ fhist[id].softDeletes = 0
    /\ \A u \in Users, d \in Domains \cup {Null} :
          \A id \in findByUploader(u, d) :
              db[id].status = ACTIVE /\ fhist[id].softDeletes = 0

\* the step in which the save of a deleteFile call lands on the document
SoftDeleteLands(s) ==
    /\ req[s].op = "delete" /\ req[s].pc = "save" /\ req'[s].pc = "idle"
    /\ Exists(req[s].id)

\* C7: deleteFile on an existing document, with no other write to its status
\* between the call's findById and its save, returns true and leaves
\* status = deleted and every other field of every document as it was; when
\* the document already was deleted (a second call) the call changes nothing
\* in the collection.
C7_IdempotentSoftDelete ==
    [][\A s \in Slots :
          (SoftDeleteLands(s) /\ db[req[s].id].status = req[s].status) =>
              /\ db' = [db EXCEPT ![req[s].id].status = DELETED]
              /\ fhist'[req[s].id].softDeletes > fhist[req[s].id].softDeletes
                 \/ fhist[req[s].id].softDeletes = 2
              /\ req[s].status = DELETED => db' = db]_vars

\* two deleteFile calls have returned and the document is deleted
C7_Witness ==
    \E id \in FileIds :
        /\ fhist[id].softDeletes = 2 /\ Exists(id) /\ db[id].status = DELETED
        /\ \A s \in Slots : req[s].pc = "idle"
        /\ ~ResizeRunning(id)

\* a GET /:id or POST /:id/download has loaded the document and not saved
AccessInFlight(id) ==
    \E s \in Slots : req[s].id = id /\ req[s].op \in {"view", "download"}

\* C8: once the saves of all incrementView / incrementDownload calls have
\* landed, the stored counters equal the numbers of calls made.
C8_ExactCounts ==
    \A id \in FileIds :
        (Exists(id) /\ ~AccessInFlight(id)) =>
            /\ db[id].viewCount = fhist[id].views
            /\ db[id].downloadCount = fhist[id].downloads

\* C9: while the document exists, no step lowers its stored counters.
C9_MonotoneStats ==
    [][\A id \in FileIds :
          (Exists(id) /\ id \in DOMAIN db') =>
              /\ db'[id].viewCount >= db[id].viewCount
              /\ db'[id].downloadCount >= db[id].downloadCount]_vars

\* C10: saveFile stores the document with status active and no resized
\* entry; when every size of the list was generated, the step that ends
\* createResizedVersions leaves the stored document and the returned record
\* with status active and exactly the names of the list in metadata.resized
\* (thumbnail, small, medium, large for the default list).
C10_FullSuccess ==
    [][\A id \in FileIds :
          /\ (id \notin uploaded /\ id \in uploaded') =>
                /\ id \in DOMAIN db'
                /\ db'[id].status = ACTIVE /\ db'[id].resized = {}
          /\ (/\ rz[id].pc = "a_save" /\ rz'[id].pc = "returned"
              /\ id \in DOMAIN db') =>
                /\ db'[id].status = ACTIVE
                /\ db'[id].resized = Names(rz[id].sizes)
                /\ rz'[id].status = ACTIVE
                /\ rz'[id].resized = Names(rz[id].sizes)
                /\ rz[id].sizes = defaultSizes =>
                      db'[id].resized =
                          {"thumbnail", "small", "medium", "large"}]_vars

\* the default list was generated in full
C10_Witness ==
    \E id \in FileIds :
        /\ rz[id].pc = "returned" /\ rz[id].sizes = defaultSizes
        /\ Exists(id) /\ db[id].status = ACTIVE
        /\ db[id].resized = {"thumbnail", "small", "medium", "large"}

\* C20: a file whose createResizedVersions failed part-way (status failed,
\* the variants before the failing one recorded) is still returned to its
\* uploader by GET /:id and still listed by findByDomain and
\* findByUploader.
C20_PartialStaysVisible ==
    \A id \in FileIds :
        (/\ rz[id].pc = "thrown" /\ rz[id].failedAt >= 2
         /\ Exists(id) /\ db[id].status = FAILED) =>
            /\ getFileReturns(id, db[id].uploadedBy)
            /\ id \in findByDomain(db[id].domain, db[id].referenceId)
            /\ id \in findByUploader(db[id].uploadedBy, Null)

(***************************************************************************)
(* Visibility of private files on the three read routes.                   *)
(***************************************************************************)
Callers == Users \cup {Anonymous}

\* GET /domain/:domain/:referenceId: the filter applied to the files that
\* getFilesByDomain returned
filteredFiles(domain, referenceId, caller) ==
    { id \in findByDomain(domain, referenceId) :
         IF db[id].isPublic THEN TRUE
         ELSE IF caller = Anonymous THEN FALSE
         ELSE db[id].uploadedBy = caller }

\* POST /:id/download answers with the download url
trackDownloadReturns(id, caller) ==
    /\ Exists(id) /\ db[id].status = ACTIVE
    /\ ~(~db[id].isPublic /\ (caller = Anonymous \/ db[id].uploadedBy # caller))

\* C21: a file with isPublic = false is never returned by GET /:id, by the
\* domain listing or by the download route to the anonymous caller or to a
\* caller other than its uploader; a public active file is returned to every
\* caller by all three
C21_PrivateFileGating ==
    \A id \in FileIds, caller \in Callers :
       Exists(id) =>
          /\ (~db[id].isPublic /\ caller # db[id].uploadedBy) =>
                /\ ~getFileReturns(id, caller)
                /\ ~trackDownloadReturns(id, caller)
                /\ \A d \in Domains, r \in Refs :
                      id \notin filteredFiles(d, r, caller)
          /\ (db[id].isPublic /\ db[id].status = ACTIVE) =>
                /\ getFileReturns(id, caller)
                /\ trackDownloadReturns(id, caller)
                /\ id \in filteredFiles(db[id].domain, db[id].referenceId,
                                        caller)

\* a private active file that its uploader has been served, while the other
\* callers are refused
C21_Witness ==
    \E id \in FileIds :
       /\ Exists(id) /\ ~db[id].isPublic /\ db[id].status = ACTIVE
       /\ fhist[id].views >= 1 /\ fhist[id].downloads >= 1
       /\ getFileReturns(id, db[id].uploadedBy)
       /\ \E caller \in Callers : ~getFileReturns(id, caller)

\* the variants for which createSingleResizedVersion has returned while
\* createResizedVersions is running: those before the loop position, all of
\* the list after the loop, those before the failing one in the catch block
Completed(r) ==
    CASE r.pc = "p_save" -> {}
      [] r.pc \in {"gen", "v_save"} -> NamesBefore(r.sizes, r.k)
      [] r.pc = "a_save" -> Names(r.sizes)
      [] r.pc = "f_save" -> NamesBefore(r.sizes, r.failedAt)
      [] OTHER -> {}

\* C22: at every point of a running createResizedVersions the stored
\* document, as long as it exists, has in metadata.resized exactly the
\* variants whose createSingleResizedVersion call has returned, so that a
\* crash at that point leaves exactly those on the stored record
C22_CrashDurableProgress ==
    \A id \in FileIds :
       (/\ ResizeRunning(id) /\ Exists(id)
        /\ rz[id].pc = "f_save" => rz[id].failedAt >= 1) =>
           db[id].resized = Completed(rz[id])

\* mid-loop: two of the four default variants are done and stored, the third
\* is being generated
C22_Witness ==
    \E id \in FileIds :
       /\ rz[id].pc = "gen" /\ rz[id].k = 3 /\ rz[id].sizes = defaultSizes
       /\ Exists(id) /\ db[id].resized = {"thumbnail", "small"}

C24_OneItemPerStep ==
    [][/\ \A w \in DOMAIN wk :
            wk'[w] # wk[w] =>
               /\ Len(pending') >= Len(pending) - 1
               /\ Len(pending') < Len(pending) =>
                     (wk[w].pc = "idle" /\ wk'[w].pc = "move")
               /\ wk'[w].pc = "move" =>
                     (wk[w].pc = "idle" /\ Len(pending') = Len(pending) - 1)
               /\ Len(sendLog') <= Len(sendLog) + 1
               /\ Len(sendLog') > Len(sendLog) =>
                     (wk[w].pc = "send" /\ wk'[w].pc \in {"ack", "requeue"})
               /\ wk'[w].pc = "send" => wk[w].pc = "move"
               /\ wk[w].pc \in {"ack", "requeue"} => wk'[w].pc # "send"
       /\ ((\A w \in DOMAIN wk : ~Busy(w)) /\ pending = <<>>) =>
             /\ wk' = wk /\ sendLog' = sendLog
             /\ pending' = <<>> \/ Len(enqLog') = Len(enqLog) + 1
             /\ processing' # processing => clearing]_vars

\* a call took message 1 of three and has made its one sendEmail call;
\* the other two messages are still in pending
C24_Witness ==
    /\ Len(pending) = 2 /\ Len(sendLog) = 1
    /\ \E w \in DOMAIN wk :
          wk[w].pc = "ack" /\ Get(wk[w].message, "id") = "1"
    /\ "clear" \notin hist

\* the payload of a message is in a Redis list
Holds(list, message) ==
    \E i \in 1..Len(list) : Payload(JSONparse(list[i])) = Payload(message)

\* C25: whichever store calls reject inside processQueue, a message whose
\* sendEmail call failed is not lost: its payload is held by a call still in
\* flight, is in pending or in processing, or was delivered by a later call
C25_NoSilentLoss ==
    \A i \in 1..Len(sendLog) :
       sendLog[i][2] = "fail" =>
          LET message == sendLog[i][1]
          IN  \/ \E w \in DOMAIN wk :
                    Busy(w) /\ Payload(wk[w].message) = Payload(message)
              \/ Holds(pending, message)
              \/ Holds(processing, message)
              \/ \E j \in 1..Len(sendLog) :
                    /\ sendLog[j][2] = "ok"
                    /\ Payload(sendLog[j][1]) = Payload(message)

\* C26: once a softDelete has landed on a document and the
\* createResizedVersions call started by its upload has ended, the stored
\* status is deleted, and neither GET /:id nor findByDomain returns it
C26_DeletedStaysDeleted ==
    \A id \in FileIds :
       (/\ Exists(id) /\ fhist[id].softDeletes >= 1
        /\ rz[id].pc \in {"returned", "thrown"}) =>
           /\ db[id].status = DELETED
           /\ \A caller \in Callers : ~getFileReturns(id, caller)
           /\ \A d \in Domains, r \in Refs : id \notin findByDomain(d, r)

\* every sendEmail failure so far is one of the message this call holds: no
\* other call has re-enqueued anything
OnlyFailureOf(w) ==
    \A i \in 1..Len(sendLog) :
       sendLog[i][2] = "fail" =>
          Get(sendLog[i][1], "id") = Get(wk[w].message, "id")

\* C27: with nothing enqueued after clearQueue, a processQueue call that
\* took its message before the clearQueue call and returns after clearQueue
\* has completed leaves both lists empty: it does not write its message back
C27_ClearAgainstInFlight ==
    [][\A w \in DOMAIN wk :
          (/\ Busy(w) /\ wk'[w].pc = "idle"
           /\ "clear" \in hist /\ ~clearing
           /\ OnlyFailureOf(w)) =>
              (pending' = <<>> /\ processing' = <<>>)]_vars

(***************************************************************************)
(* Properties of the user accounts.                                        *)
(***************************************************************************)
\* a PUT or DELETE has written the database and its del has not landed
WriteInFlight(id) ==
    \E s \in USlots :
       ureq[s].op \in {"put", "delete"} /\ ureq[s].pc = "del"
       /\ ureq[s].id = id

C29_TokensOnlyForVerified ==
    /\ \A tok \in jwts :
          UserExists(tok.userId) => users[tok.userId].isEmailVerified
    /\ \A tok \in Presentable :
          Admits(tok) =>
             /\ tok \in jwts
             /\ UserExists(tok.userId) /\ users[tok.userId].isEmailVerified
    /\ \A id \in UserIds :
          (UserExists(id) /\ ~users[id].isEmailVerified) =>
              \A tok \in Presentable : tok.userId = id =>
                  (tok \notin jwts /\ ~Admits(tok))

\* a registered user who asked for a second code and let it expire: still
\* unverified and without a token
C29_Witness ==
    \E id \in UserIds :
       /\ UserExists(id) /\ ~users[id].isEmailVerified
       /\ issued[id].latest # Null /\ issued[id].earlier # {}
       /\ users[id].emailVerificationExpires = "past"
       /\ jwts = {}

\* C30: verify-email goes on to set isEmailVerified only for the code
\* mailed last and not expired; a code mailed before the last one, or used
\* by a completed verification, is refused
C30_SingleUseSuperseded ==
    \A id \in UserIds, code \in Codes :
       /\ verifyEmailAccepts(id, code) =>
             /\ code = issued[id].latest
             /\ users[id].emailVerificationExpires = "future"
       /\ code \in issued[id].earlier => ~verifyEmailAccepts(id, code)

====
